---- MODULE Spec2Model ----
\* Wallet-mediated call forwarding, the management operations built on it and
\* the ledger bootstrap builder of ic-test-utils, as state machines.
\*
\*   Spec        the wallet handle and the management handle: one operation at
\*               a time is invoked, submitted, polled and returned.
\*   FairSpec    Spec with the polling loop scheduled (the awaited future is
\*               driven to completion by the caller's executor).
\*   LedgerSpec  the ledger builder: with_account and build.
EXTENDS Integers, Sequences, FiniteSets, TLC

VARIABLES
    pc,        \* "idle" | "waiting" | "done": where the awaited operation stands
    op,        \* the operation invoked and its inputs
    sent,      \* update calls handed to the agent by the current operation
    elapsed,   \* milliseconds since the waiter was started
    checks,    \* status checks made by call_and_wait for the current call
    reply,     \* what the transport / replica answered for the current call
    steps,     \* the steps of the operation that have run, in order
    result,    \* the Result returned to the caller
    owner,     \* LedgerBuilder.owner
    accounts,  \* LedgerBuilder.accounts
    configDir, \* whether dirs::config_dir() yields a directory
    lpc,       \* "ready" | "creating": where the ledger builder's caller stands
    created,   \* canister-creation calls issued by build, in order
    history,   \* with_account insertions and build take-outs, in order
    lresult    \* the Result returned by the last ledger builder operation

vars == <<pc, op, sent, elapsed, checks, reply, steps, result,
          owner, accounts, configDir, lpc, created, history, lresult>>

walletVars == <<pc, op, sent, elapsed, checks, reply, steps, result>>
ledgerVars == <<owner, accounts, configDir, lpc, created, history, lresult>>

----------------------------------------------------------------------------
\* Bounds of the model.

MaxCycles == 2      \* cycle budgets 0..MaxCycles
MaxArg == 1         \* caller argument values 0..MaxArg
MaxTokens == 2      \* token balances 1..MaxTokens
MaxEvents == 3      \* ledger builder operations per run

----------------------------------------------------------------------------
\* Addresses and texts. A value goes on the wire as its index in these tables.

Principals == <<"aaaaa-aa", "wallet-a", "wallet-b", "canister-x", "canister-y">>

management_canister == "aaaaa-aa"

Wallets == {"wallet-a", "wallet-b"}

Targets == {"canister-x", "canister-y"}

Texts == <<"", "wallet_call", "install_code", "upgrade_code", "stop_canister",
           "delete_canister", "greet", "out of cycles">>

MethodNames == {"greet", "wallet_call"}

Messages == {"", "out of cycles"}

TypeNames == <<"CallForwardArgs", "CanisterInstall", "In", "Result", "()",
               "principal", "nat">>

Index(table, x) == CHOOSE i \in 1..Len(table) : table[i] = x

PrincipalSet == {Principals[i] : i \in 1..Len(Principals)}

Tag(ty) == Index(TypeNames, ty)

----------------------------------------------------------------------------
\* The Candid codec, as far as the program's types use it. A message is a
\* sequence of numbers: the tag of its type, then its fields in order; a byte
\* field is its length followed by its bytes.

InRange(b, i, table) == b[i] \in 1..Len(table)

Malformed == [ok |-> FALSE]

\* #[derive(CandidType, Deserialize)] struct CallForwardArgs
EncodeCallForwardArgs(a) ==
    <<Tag("CallForwardArgs"), Index(Principals, a.canister),
      Index(Texts, a.method_name), Len(a.args)>> \o a.args \o <<a.cycles>>

DecodeCallForwardArgs(b) ==
    IF /\ Len(b) >= 5
       /\ b[1] = Tag("CallForwardArgs")
       /\ InRange(b, 2, Principals)
       /\ InRange(b, 3, Texts)
       /\ b[4] = Len(b) - 5
    THEN [ok |-> TRUE,
          canister |-> Principals[b[2]],
          method_name |-> Texts[b[3]],
          args |-> SubSeq(b, 5, Len(b) - 1),
          cycles |-> b[Len(b)]]
    ELSE Malformed

\* enum InstallMode with its serde names
InstallModes == <<"Install", "Reinstall", "Upgrade">>

ModeLabels == <<"install", "reinstall", "upgrade">>

ModeLabel(mode) == ModeLabels[Index(InstallModes, mode)]

\* #[derive(CandidType, Deserialize)] struct CanisterInstall
EncodeCanisterInstall(a) ==
    <<Tag("CanisterInstall"), Index(ModeLabels, ModeLabel(a.mode)),
      Index(Principals, a.canister_id), Len(a.wasm_module)>>
    \o a.wasm_module \o <<Len(a.arg)>> \o a.arg

DecodeCanisterInstall(b) ==
    IF /\ Len(b) >= 5
       /\ b[1] = Tag("CanisterInstall")
       /\ InRange(b, 2, ModeLabels)
       /\ InRange(b, 3, Principals)
       /\ b[4] >= 0
       /\ Len(b) >= 5 + b[4]
       /\ b[5 + b[4]] = Len(b) - (5 + b[4])
    THEN [ok |-> TRUE,
          mode |-> InstallModes[b[2]],
          canister_id |-> Principals[b[3]],
          wasm_module |-> SubSeq(b, 5, 4 + b[4]),
          arg |-> SubSeq(b, 6 + b[4], Len(b))]
    ELSE Malformed

\* #[derive(CandidType, Deserialize)] struct In { canister_id }
EncodeIn(a) == <<Tag("In"), Index(Principals, a.canister_id)>>

DecodeIn(b) ==
    IF Len(b) = 2 /\ b[1] = Tag("In") /\ InRange(b, 2, Principals)
    THEN [ok |-> TRUE, canister_id |-> Principals[b[2]]]
    ELSE Malformed

\* encode_args((n,)) and Encode!(&n) of a caller argument n
EncodeArg(n) == <<Tag("nat"), n>>

DecodeArg(b) ==
    IF Len(b) = 2 /\ b[1] = Tag("nat") THEN [ok |-> TRUE, val |-> b[2]]
    ELSE Malformed

\* std::result::Result<CallResult, String>, CallResult { return: blob }
EncodeOk(payload) == <<Tag("Result"), 0, Len(payload)>> \o payload

EncodeErr(m) == <<Tag("Result"), 1, Index(Texts, m)>>

DecodeCallResult(b) ==
    IF Len(b) >= 3 /\ b[1] = Tag("Result") /\ b[2] = 0 /\ b[3] = Len(b) - 3
    THEN [ok |-> TRUE, is_err |-> FALSE, payload |-> SubSeq(b, 4, Len(b)), msg |-> ""]
    ELSE IF Len(b) = 3 /\ b[1] = Tag("Result") /\ b[2] = 1 /\ InRange(b, 3, Texts)
    THEN [ok |-> TRUE, is_err |-> TRUE, payload |-> <<>>, msg |-> Texts[b[3]]]
    ELSE Malformed

\* Replies of the inner call: no values, or one principal.
EncodeUnit == <<Tag("()")>>

EncodePrincipal(p) == <<Tag("principal"), Index(Principals, p)>>

\* Decode!(&result, Out) for Out = () and Out = Principal
DecodeOut(b, out) ==
    IF out = "()" THEN [ok |-> b = EncodeUnit]
    ELSE IF out = "principal"
    THEN [ok |-> Len(b) = 2 /\ b[1] = Tag("principal") /\ InRange(b, 2, Principals)]
    ELSE Malformed

----------------------------------------------------------------------------
\* errors.rs: Result<T> and the conversions into Error that `?` applies.

Ok(v) == [tag |-> "Ok", variant |-> "", msg |-> "", value |-> v]

Err(variant, m) == [tag |-> "Err", variant |-> variant, msg |-> m, value |-> <<>>]

NoResult == [tag |-> "None", variant |-> "", msg |-> "", value |-> <<>>]

\* #[from] ic_agent::agent::agent_error::AgentError
FromAgentError(e) == Err("Agent", e)

\* #[from] ic_cdk::export::candid::Error
FromCandidError == Err("Candid", "")

\* (mutant) the wallet's message reported as a codec error
FromString_as_candid(s) == Err("Candid", s)

\* impl From<String> for Error
FromString(s) == Err("Generic", s)

\* #[from] ic_agent::identity::PemError
FromPemError(e) == Err("Ident", e)

MissingConfig == Err("MissingConfig", "")

----------------------------------------------------------------------------
\* lib.rs: the waiter handed to call_and_wait.

THROTTLE_MS == 500

TIMEOUT_MS == 300000

\* (mutant) a waiter whose timeout is ten minutes
get_waiter_ten_minutes == [throttle |-> THROTTLE_MS, timeout |-> 2 * TIMEOUT_MS]

get_waiter == [throttle |-> THROTTLE_MS, timeout |-> TIMEOUT_MS]

----------------------------------------------------------------------------
\* canister/mod.rs and canister/wallet.rs

\* Canister::update_raw: an unsent update call on the handle `self`
update_raw(self, method_name, args) ==
    [canister_id |-> self, method_name |-> method_name, arg |-> args]

\* (mutant) the envelope with the cycle budget left at zero
CallForwardArgs_no_cycles(call, cycles) ==
    [canister |-> call.canister_id,
     method_name |-> call.method_name,
     args |-> call.arg,
     cycles |-> 0]

\* call_forward, the envelope built from the descriptor
CallForwardArgs(call, cycles) ==
    [canister |-> call.canister_id,
     method_name |-> call.method_name,
     args |-> call.arg,
     cycles |-> cycles]

\* (mutant) the update call sent to the descriptor's target, past the wallet
call_forward_request_direct(self, call, cycles) ==
    [to |-> call.canister_id,
     method_name |-> call.method_name,
     arg |-> call.arg]

\* call_forward, the update call handed to the agent on the wallet handle
call_forward_request(self, call, cycles) ==
    [to |-> self,
     method_name |-> "wallet_call",
     arg |-> EncodeCallForwardArgs(CallForwardArgs(call, cycles))]

\* (mutant) a wallet-reported error taken for a reply without payload
call_forward_unwrap_lenient(data) ==
    LET val == DecodeCallResult(data) IN
    IF ~val.ok THEN FromCandidError
    ELSE Ok(val.payload)

\* call_forward after call_and_wait returned `data`: Decode!(..)?? and Ok(payload)
call_forward_unwrap(data) ==
    LET val == DecodeCallResult(data) IN
    IF ~val.ok THEN FromCandidError
    ELSE IF val.is_err THEN FromString(val.msg)
    ELSE Ok(val.payload)

\* the steps call_forward runs once call_and_wait returned data
call_forward_steps == <<"decode_response">>

----------------------------------------------------------------------------
\* canister/management.rs

\* through_wallet_call after call_forward returned `forwarded`
through_wallet_call_decode(forwarded, out) ==
    IF forwarded.tag = "Err" THEN forwarded
    ELSE IF ~DecodeOut(forwarded.value, out).ok THEN FromCandidError
    ELSE Ok(<<>>)

through_wallet_call_steps(forwarded) ==
    IF forwarded.tag = "Err" THEN <<>> ELSE <<"decode_output">>

\* (mutant) install_code asking for a reinstall
install_code_args_reinstall(canister_id, bytecode, arg) ==
    EncodeCanisterInstall([mode |-> "Reinstall",
                           canister_id |-> canister_id,
                           wasm_module |-> bytecode,
                           arg |-> EncodeArg(arg)])

\* the payloads the four operations build
install_code_args(canister_id, bytecode, arg) ==
    EncodeCanisterInstall([mode |-> "Install",
                           canister_id |-> canister_id,
                           wasm_module |-> bytecode,
                           arg |-> EncodeArg(arg)])

upgrade_code_args(canister_id, bytecode, arg) ==
    EncodeCanisterInstall([mode |-> "Upgrade",
                           canister_id |-> canister_id,
                           wasm_module |-> bytecode,
                           arg |-> EncodeArg(arg)])

stop_canister_args(canister_id) == EncodeIn([canister_id |-> canister_id])

delete_canister_args(canister_id) == EncodeIn([canister_id |-> canister_id])

\* the output type each operation asks through_wallet_call to decode
install_code_out == "()"

\* (mutant) upgrade_code expecting the empty reply like the others
upgrade_code_out_unit == "()"

upgrade_code_out == "principal"

stop_canister_out == "()"

delete_canister_out == "()"

\* what the operation returns for what came back from the agent: `raw` is
\* Ok(data) or the agent's error
Complete(o, raw) ==
    LET forwarded == IF raw.tag = "Err" THEN raw ELSE call_forward_unwrap(raw.value)
    IN IF o.kind = "call_forward" THEN forwarded
       ELSE through_wallet_call_decode(forwarded, o.out)

StepsAfter(o, raw) ==
    LET forwarded == IF raw.tag = "Err" THEN raw ELSE call_forward_unwrap(raw.value)
    IN IF raw.tag = "Err" THEN <<>>
       ELSE call_forward_steps \o
            (IF o.kind = "call_forward" THEN <<>> ELSE through_wallet_call_steps(forwarded))

----------------------------------------------------------------------------
\* Inputs of the wallet and management operations.

Cycles == 0..MaxCycles

ArgValues == 0..MaxArg

Bytecodes == {<<0, 97, 115, 109>>, <<>>}

RawArgs == {<<>>, EncodeArg(0)}

\* unsent update calls a caller can hand to call_forward: any handle, the
\* wallet's own included
Descriptors ==
    {update_raw(c, m, a) : c \in PrincipalSet, m \in MethodNames, a \in RawArgs}

\* what the replica can hold as the reply of the forwarding call
Payloads == {EncodeUnit, EncodePrincipal("canister-x"), <<>>}

Replies ==
    {EncodeOk(p) : p \in Payloads} \cup {EncodeErr(m) : m \in Messages}
    \cup {<<>>, EncodeUnit}

NoOp ==
    [kind |-> "none", wallet |-> "", call |-> update_raw("", "", <<>>),
     cycles |-> 0, out |-> "", canister_id |-> "", bytecode |-> <<>>, arg |-> 0]

AppendOnce(q, x) == IF \E i \in 1..Len(q) : q[i] = x THEN q ELSE Append(q, x)

NoReply == [kind |-> "none", data |-> <<>>]

\* The operation `o` hands its forwarding call to the agent; `accepted` is
\* whether the transport took the request.
Invoke(o, accepted) ==
    /\ pc = "idle"
    /\ op' = o
    /\ sent' = <<call_forward_request(o.wallet, o.call, o.cycles)>>
    /\ elapsed' = 0
    /\ checks' = 0
    /\ IF accepted
       THEN /\ pc' = "waiting"
            /\ reply' = NoReply
            /\ steps' = <<"submit">>
            /\ result' = NoResult
       ELSE /\ pc' = "done"
            /\ reply' = [kind |-> "transport_error", data |-> <<>>]
            /\ steps' = <<"submit">> \o StepsAfter(o, FromAgentError("TransportError"))
            /\ result' = Complete(o, FromAgentError("TransportError"))
    /\ UNCHANGED ledgerVars

\* Canister<Wallet>::call_forward called directly
CallForward ==
    /\ pc = "idle"
    /\ \E w \in Wallets, call \in Descriptors, c \in Cycles, accepted \in BOOLEAN :
        Invoke([kind |-> "call_forward", wallet |-> w, call |-> call, cycles |-> c,
                out |-> "bytes", canister_id |-> call.canister_id,
                bytecode |-> <<>>, arg |-> 0], accepted)

\* Canister<Management>::install_code
InstallCode ==
    /\ pc = "idle"
    /\ \E w \in Wallets, id \in Targets, code \in Bytecodes, a \in ArgValues,
       accepted \in BOOLEAN :
        Invoke([kind |-> "install_code", wallet |-> w,
                call |-> update_raw(management_canister, "install_code",
                                    install_code_args(id, code, a)),
                cycles |-> 0, out |-> install_code_out, canister_id |-> id,
                bytecode |-> code, arg |-> a], accepted)

\* Canister<Management>::upgrade_code
UpgradeCode ==
    /\ pc = "idle"
    /\ \E w \in Wallets, id \in Targets, code \in Bytecodes, a \in ArgValues,
       accepted \in BOOLEAN :
        Invoke([kind |-> "upgrade_code", wallet |-> w,
                call |-> update_raw(management_canister, "upgrade_code",
                                    upgrade_code_args(id, code, a)),
                cycles |-> 0, out |-> upgrade_code_out, canister_id |-> id,
                bytecode |-> code, arg |-> a], accepted)

\* Canister<Management>::stop_canister
StopCanister ==
    /\ pc = "idle"
    /\ \E w \in Wallets, id \in Targets, accepted \in BOOLEAN :
        Invoke([kind |-> "stop_canister", wallet |-> w,
                call |-> update_raw(management_canister, "stop_canister",
                                    stop_canister_args(id)),
                cycles |-> 0, out |-> stop_canister_out, canister_id |-> id,
                bytecode |-> <<>>, arg |-> 0], accepted)

\* Canister<Management>::delete_canister
DeleteCanister ==
    /\ pc = "idle"
    /\ \E w \in Wallets, id \in Targets, accepted \in BOOLEAN :
        Invoke([kind |-> "delete_canister", wallet |-> w,
                call |-> update_raw(management_canister, "delete_canister",
                                    delete_canister_args(id)),
                cycles |-> 0, out |-> delete_canister_out, canister_id |-> id,
                bytecode |-> <<>>, arg |-> 0], accepted)

\* call_and_wait ends with what the agent got and drops its waiter: the rest of
\* the operation runs
Finish(kind, raw) ==
    /\ pc' = "done"
    /\ reply' = [kind |-> kind, data |-> raw.value]
    /\ elapsed' = 0
    /\ checks' = 0
    /\ steps' = AppendOnce(steps, "poll") \o StepsAfter(op, raw)
    /\ result' = Complete(op, raw)
    /\ UNCHANGED <<op, sent>>
    /\ UNCHANGED ledgerVars

\* a status check finds the call replied
PollReplied ==
    /\ pc = "waiting"
    /\ \E data \in Replies : Finish("replied", Ok(data))

\* a status check finds the call rejected
PollRejected ==
    /\ pc = "waiting"
    /\ Finish("rejected", FromAgentError("ReplicaError"))

\* a status check finds the call still in progress and the waiter has time left
PollPending ==
    /\ pc = "waiting"
    /\ elapsed < get_waiter.timeout
    /\ elapsed' = elapsed + get_waiter.throttle
    /\ checks' = checks + 1
    /\ steps' = AppendOnce(steps, "poll")
    /\ UNCHANGED <<pc, op, sent, reply, result>>
    /\ UNCHANGED ledgerVars

\* a status check finds the call still in progress and the waiter has run out
PollTimeout ==
    /\ pc = "waiting"
    /\ elapsed >= get_waiter.timeout
    /\ Finish("timeout", FromAgentError("TimeoutWaitingForResponse"))

Poll == PollReplied \/ PollRejected \/ PollPending \/ PollTimeout

\* the caller takes the result; the handles are ready for the next operation
Return ==
    /\ pc = "done"
    /\ pc' = "idle"
    /\ op' = NoOp
    /\ sent' = <<>>
    /\ elapsed' = 0
    /\ checks' = 0
    /\ reply' = NoReply
    /\ steps' = <<>>
    /\ result' = NoResult
    /\ UNCHANGED ledgerVars

WalletInit ==
    /\ pc = "idle"
    /\ op = NoOp
    /\ sent = <<>>
    /\ elapsed = 0
    /\ checks = 0
    /\ reply = NoReply
    /\ steps = <<>>
    /\ result = NoResult

----------------------------------------------------------------------------
\* lib.rs get_identity and ledger.rs LedgerBuilder.

\* the identity.pem found under <config>/dfx/identity/<name>/
IdentityFiles ==
    [max |-> [state |-> "ok", key |-> "key-max"],
     alex |-> [state |-> "ok", key |-> "key-alex"],
     maxcopy |-> [state |-> "ok", key |-> "key-max"],
     nobody |-> [state |-> "missing", key |-> ""],
     garbled |-> [state |-> "unparsable", key |-> ""]]

Names == DOMAIN IdentityFiles

\* get_identity(account_name): Ok(identity) or the error `?` converts
get_identity(account_name) ==
    IF ~configDir THEN MissingConfig
    ELSE IF IdentityFiles[account_name].state = "missing" THEN FromPemError("Io")
    ELSE IF IdentityFiles[account_name].state = "unparsable" THEN FromPemError("Pem")
    ELSE [tag |-> "Ok", variant |-> "", msg |-> "",
          value |-> IdentityFiles[account_name].key]

\* Identity::sender: the self-authenticating principal of the key
sender(key) == [self_authenticating |-> key]

\* AccountIdentifier::new(principal, None)
AccountIdentifier(principal) == [owner |-> principal, subaccount |-> "none"]

EmptyMap == [a \in {} |-> 0]

\* (mutant) an insert that keeps the balance already stored for the key
Insert_keep_first(map, k, v) ==
    [a \in DOMAIN map \cup {k} |-> IF a \in DOMAIN map THEN map[a] ELSE v]

\* HashMap::insert
Insert(map, k, v) ==
    [a \in DOMAIN map \cup {k} |-> IF a = k THEN v ELSE map[a]]

Tokens == 1..MaxTokens

\* the default budget of build, 1_000_000_000_000 cycles, counted in units of
\* 10^9 cycles as are the budgets a caller of build passes
DEFAULT_CYCLES == 1000

\* build, the account the payload names as minting account
build_owner(identity) == AccountIdentifier(sender(identity))

\* (mutant) build sending a copy and keeping the accumulated mapping
build_taken_clone(map) == map

\* build, the value std::mem::take leaves in self.accounts
build_taken(map) == EmptyMap

\* build, the LedgerCanisterInitPayload
LedgerCanisterInitPayload(minting_account, initial_values) ==
    [minting_account |-> minting_account,
     initial_values |-> initial_values,
     max_message_size_bytes |-> "None",
     transaction_window |-> "None",
     archive_options |-> "None",
     send_whitelist |-> {}]

\* build, cycles.into().unwrap_or(..): 0 stands for None
build_cycles(cycles) == IF cycles = 0 THEN DEFAULT_CYCLES ELSE cycles

\* the creation call create_canister makes for build
create_canister(account_name, arg, cycles) ==
    [account_name |-> account_name, arg |-> arg, cycles |-> cycles]

\* (mutant) build issuing the creation call whatever get_identity returned
build_calls_unchecked(identity, map, account_name, cycles) ==
    <<create_canister(account_name,
                      LedgerCanisterInitPayload(build_owner(identity.value), map),
                      build_cycles(cycles))>>

\* build, the creation calls it issues given what get_identity returned
build_calls(identity, map, account_name, cycles) ==
    IF identity.tag = "Err" THEN <<>>
    ELSE <<create_canister(account_name,
                           LedgerCanisterInitPayload(build_owner(identity.value), map),
                           build_cycles(cycles))>>

LResult(of, r) == [of |-> of, tag |-> r.tag, variant |-> r.variant]

\* LedgerBuilder::with_account
WithAccount ==
    /\ lpc = "ready"
    /\ Len(history) < MaxEvents
    /\ \E account_name \in Names, tokens \in Tokens :
        LET ident == get_identity(account_name) IN
        IF ident.tag = "Err"
        THEN /\ lresult' = LResult("with_account", ident)
             /\ UNCHANGED <<accounts, history>>
        ELSE LET account == AccountIdentifier(sender(ident.value)) IN
             /\ accounts' = Insert(accounts, account, tokens)
             /\ history' = Append(history,
                                  [ev |-> "add", account |-> account, tokens |-> tokens])
             /\ lresult' = LResult("with_account", Ok(<<>>))
    /\ UNCHANGED <<owner, configDir, lpc, created>>
    /\ UNCHANGED walletVars

\* LedgerBuilder::build up to the await of create_canister
Build ==
    /\ lpc = "ready"
    /\ Len(history) < MaxEvents
    /\ \E account_name \in {"max"}, cycles \in 0..1 :
        LET ident == get_identity(owner)
            calls == build_calls(ident, accounts, account_name, cycles)
        IN
        /\ created' = created \o calls
        /\ IF ident.tag = "Err"
           THEN /\ lresult' = LResult("build", ident)
                /\ UNCHANGED <<accounts, history, lpc>>
           ELSE /\ accounts' = build_taken(accounts)
                /\ history' = Append(history,
                                     [ev |-> "build", account |-> build_owner(ident.value),
                                      tokens |-> 0])
                /\ lpc' = "creating"
                /\ lresult' = LResult("none", NoResult)
    /\ UNCHANGED <<owner, configDir>>
    /\ UNCHANGED walletVars

\* create_canister returns and build returns its result
CreateReturns ==
    /\ lpc = "creating"
    /\ \E r \in {Ok(<<>>), FromAgentError("TransportError"), FromString("out of cycles")} :
        lresult' = LResult("build", r)
    /\ lpc' = "ready"
    /\ UNCHANGED <<owner, accounts, configDir, created, history>>
    /\ UNCHANGED walletVars

\* new_ledger_canister(owner), in an environment with or without a config dir
LedgerInit ==
    /\ owner \in Names
    /\ accounts = EmptyMap
    /\ configDir \in BOOLEAN
    /\ lpc = "ready"
    /\ created = <<>>
    /\ history = <<>>
    /\ lresult = LResult("none", NoResult)

\* no ledger builder in use
LedgerUnused ==
    /\ owner = "max"
    /\ accounts = EmptyMap
    /\ configDir = TRUE
    /\ lpc = "ready"
    /\ created = <<>>
    /\ history = <<>>
    /\ lresult = LResult("none", NoResult)

----------------------------------------------------------------------------
Init == WalletInit /\ LedgerUnused

Next ==
    \/ CallForward
    \/ InstallCode
    \/ UpgradeCode
    \/ StopCanister
    \/ DeleteCanister
    \/ PollReplied
    \/ PollRejected
    \/ PollPending
    \/ PollTimeout
    \/ Return

Spec == Init /\ [][Next]_vars

\* the executor drives the awaited call_and_wait loop
FairSpec == Spec /\ WF_vars(Poll)

LInit == WalletInit /\ LedgerInit

LNext == WithAccount \/ Build \/ CreateReturns

LedgerSpec == LInit /\ [][LNext]_vars

----------------------------------------------------------------------------
\* Properties of the wallet and management operations (Spec, FairSpec).

ManagementKinds == {"install_code", "upgrade_code", "stop_canister", "delete_canister"}

Submitted == pc \in {"waiting", "done"}

\* the forward envelope as the wallet reads it off the wire
Envelope == DecodeCallForwardArgs(sent[1].arg)

EnvelopeCopiesDescriptor ==
    /\ Len(sent) = 1
    /\ Envelope.ok
    /\ Envelope.canister = op.call.canister_id
    /\ Envelope.method_name = op.call.method_name
    /\ Envelope.args = op.call.arg
    /\ Envelope.cycles = op.cycles
    /\ sent[1].to = op.wallet
    /\ sent[1].method_name = "wallet_call"

\* C1 as stated: the envelope submitted by call_forward(descriptor, C) on wallet
\* W carries the descriptor's target, method and argument bytes and cycles = C,
\* never carries W's own address as target, and the outer update call goes to W
\* under the method name "wallet_call".
C1_AsStated ==
    Submitted => EnvelopeCopiesDescriptor /\ Envelope.canister # op.wallet

\* C1 amended: the envelope submitted by call_forward(descriptor, C) on wallet W
\* carries the descriptor's target, method and argument bytes and cycles = C;
\* it carries W's own address as target exactly when the descriptor itself
\* targets W; the outer update call goes to W under the method name
\* "wallet_call".
C1_EnvelopeCopiesDescriptor ==
    Submitted =>
        /\ EnvelopeCopiesDescriptor
        /\ (Envelope.canister = op.wallet) <=> (op.call.canister_id = op.wallet)

C1_Witness ==
    /\ pc = "waiting"
    /\ op.kind = "call_forward"
    /\ op.cycles = MaxCycles
    /\ op.call.canister_id = "canister-x"
    /\ op.call.method_name = "greet"
    /\ Envelope.cycles = MaxCycles
    /\ Envelope.canister = "canister-x"

\* C2: when the wallet's response is the error variant with message m the
\* operation returns Err(Generic(m)), never Ok; when it is the success variant
\* with payload p, call_forward returns Ok(p) unchanged.
C2_ErrorVariantSurfaces ==
    (pc = "done" /\ reply.kind = "replied") =>
        /\ \A m \in Messages :
            reply.data = EncodeErr(m) =>
                result.tag = "Err" /\ result.variant = "Generic" /\ result.msg = m
        /\ \A p \in Payloads :
            (reply.data = EncodeOk(p) /\ op.kind = "call_forward") =>
                result.tag = "Ok" /\ result.value = p

C2_Witness ==
    /\ pc = "done"
    /\ op.kind = "call_forward"
    /\ reply.kind = "replied"
    /\ reply.data = EncodeErr("")
    /\ result = Err("Generic", "")

\* the payloads that are a well-typed reply for the output type `out`
WellTyped(p, out) ==
    IF out = "()" THEN p = EncodeUnit
    ELSE IF out = "principal" THEN \E x \in PrincipalSet : p = EncodePrincipal(x)
    ELSE TRUE

HasStep(x) == \E i \in 1..Len(steps) : steps[i] = x

\* where the failure of the finished operation comes from, read off what the
\* transport and the replica answered
Origin ==
    IF reply.kind \in {"transport_error", "rejected", "timeout"} THEN "transport"
    ELSE IF \E m \in Messages : reply.data = EncodeErr(m) THEN "wallet"
    ELSE IF \E p \in Payloads : reply.data = EncodeOk(p) /\ WellTyped(p, op.out) THEN "none"
    ELSE "codec"

\* C3: a transport failure (poll timeout included) is returned as Agent, a
\* wallet-reported failure as Generic, a decoding mismatch of the response or
\* of the payload as Candid; each failure is returned at once: one update call
\* was made, and no step after the failing one has run.
C3_FailureOriginsDistinct ==
    pc = "done" =>
        /\ Len(sent) = 1
        /\ (Origin = "transport") <=> (result.tag = "Err" /\ result.variant = "Agent")
        /\ (Origin = "wallet") <=> (result.tag = "Err" /\ result.variant = "Generic")
        /\ (Origin = "codec") <=> (result.tag = "Err" /\ result.variant = "Candid")
        /\ (Origin = "none") <=> (result.tag = "Ok")
        /\ Origin = "transport" => ~HasStep("decode_response") /\ ~HasStep("decode_output")
        /\ reply.kind = "transport_error" => ~HasStep("poll")
        /\ Origin = "wallet" => ~HasStep("decode_output")
        /\ (reply.kind = "replied" /\ ~DecodeCallResult(reply.data).ok) =>
               ~HasStep("decode_output")

C3_Witness ==
    /\ pc = "done"
    /\ op.kind = "upgrade_code"
    /\ reply.kind = "replied"
    /\ reply.data = EncodeOk(EncodeUnit)
    /\ result = Err("Candid", "")
    /\ HasStep("decode_output")

\* C4: a management operation makes exactly one update call, to the supplied
\* wallet under "wallet_call" and none to the management canister; its envelope
\* targets the management canister, not the canister operated on, whose address
\* is inside the payload; it names the operation's method and has zero cycles.
C4_ManagementThroughWallet ==
    (Submitted /\ op.kind \in ManagementKinds) =>
        /\ Len(sent) = 1
        /\ sent[1].to = op.wallet
        /\ sent[1].to # "aaaaa-aa"
        /\ sent[1].method_name = "wallet_call"
        /\ Envelope.ok
        /\ Envelope.canister = "aaaaa-aa"
        /\ Envelope.canister # op.canister_id
        /\ Envelope.method_name = op.kind
        /\ Envelope.cycles = 0
        /\ IF op.kind \in {"install_code", "upgrade_code"}
           THEN /\ DecodeCanisterInstall(Envelope.args).ok
                /\ DecodeCanisterInstall(Envelope.args).canister_id = op.canister_id
           ELSE Envelope.args = EncodeIn([canister_id |-> op.canister_id])

C4_Witness ==
    /\ pc = "done"
    /\ op.kind = "delete_canister"
    /\ op.canister_id = "canister-y"
    /\ op.wallet = "wallet-b"
    /\ result.tag = "Ok"

\* C5: upgrade_code succeeds exactly when the forwarded payload is an address,
\* install_code, stop_canister and delete_canister exactly when it is the empty
\* reply; a payload of the other shape fails with a Candid error.
C5_UpgradeDecodesPrincipal ==
    (pc = "done" /\ reply.kind = "replied" /\ op.kind \in ManagementKinds) =>
        \A p \in Payloads :
            reply.data = EncodeOk(p) =>
                LET address == \E x \in PrincipalSet : p = EncodePrincipal(x)
                    fits == IF op.kind = "upgrade_code" THEN address ELSE p = EncodeUnit
                IN /\ fits => result = Ok(<<>>)
                   /\ ~fits => result = Err("Candid", "")

C5_Witness ==
    /\ pc = "done"
    /\ op.kind = "upgrade_code"
    /\ reply.data = EncodeOk(EncodePrincipal("canister-x"))
    /\ result.tag = "Ok"

\* C6: decoding the payload built by install_code / upgrade_code gives back mode
\* Install / Upgrade, the caller's canister address, module bytes and encoded
\* argument bytes; every CanisterInstall value, Reinstall included, survives
\* the round trip, and a decoded mode is one of Install, Reinstall, Upgrade.
C6_InstallPayloadRoundTrip ==
    (Submitted /\ op.kind \in {"install_code", "upgrade_code"}) =>
        LET d == DecodeCanisterInstall(Envelope.args) IN
        /\ d.ok
        /\ d.mode = (IF op.kind = "install_code" THEN "Install" ELSE "Upgrade")
        /\ d.canister_id = op.canister_id
        /\ d.wasm_module = op.bytecode
        /\ d.arg = EncodeArg(op.arg)
        /\ DecodeArg(d.arg).ok /\ DecodeArg(d.arg).val = op.arg
        /\ d.mode \in {"Install", "Reinstall", "Upgrade"}
        /\ pc = "done" =>
            \A mode \in {"Install", "Reinstall", "Upgrade"} :
                LET x == [mode |-> mode, canister_id |-> op.canister_id,
                          wasm_module |-> op.bytecode, arg |-> EncodeArg(op.arg)]
                    y == DecodeCanisterInstall(EncodeCanisterInstall(x))
                IN y.ok /\ [f \in DOMAIN x |-> y[f]] = x

C6_Witness ==
    /\ pc = "waiting"
    /\ op.kind = "install_code"
    /\ op.bytecode # <<>>
    /\ op.arg = MaxArg
    /\ DecodeCanisterInstall(Envelope.args).mode = "Install"

\* C10: a submitted call is checked every 500 ms; the wait is never past the
\* five-minute deadline; it ends with the replica's terminal result, or with a
\* timeout failure once the deadline is reached; and it always ends, with a
\* result or a failure.
C10_WaitEnds ==
    /\ [](pc = "waiting" => elapsed <= 5 * 60 * 1000 /\ elapsed = 500 * checks)
    /\ [][(pc = "waiting" /\ pc' = "waiting") => elapsed' = elapsed + 500]_vars
    /\ [][(pc = "waiting" /\ pc' = "done") =>
            /\ result'.tag \in {"Ok", "Err"}
            /\ reply'.kind = "timeout" =>
                 /\ elapsed = 5 * 60 * 1000
                 /\ result' = Err("Agent", "TimeoutWaitingForResponse")]_vars
    /\ [](pc = "done" => result.tag \in {"Ok", "Err"})
    /\ (pc = "waiting") ~> (pc = "done")

C10_Witness ==
    /\ pc = "done"
    /\ reply.kind = "timeout"
    /\ result = Err("Agent", "TimeoutWaitingForResponse")

----------------------------------------------------------------------------
\* Properties of the ledger builder (LedgerSpec).

BuildIndexes == {i \in 1..Len(history) : history[i].ev = "build"}

Largest(S) == CHOOSE x \in S : \A y \in S : y <= x

\* the build before position i of the history, 0 when there is none
PrevBuild(i) == Largest({j \in BuildIndexes : j < i} \cup {0})

\* the place in `created` of the build at position i
BuildNo(i) == Cardinality({j \in BuildIndexes : j <= i})

AddsBetween(lo, hi) == {k \in (lo + 1)..(hi - 1) : history[k].ev = "add"}

\* the mapping the insertions strictly between lo and hi amount to: one entry
\* per account identifier, holding the balance of its latest insertion
LastWrites(lo, hi) ==
    [a \in {history[k].account : k \in AddsBetween(lo, hi)} |->
        history[Largest({k \in AddsBetween(lo, hi) : history[k].account = a})].tokens]

\* C7: the payload of the first build that resolves the owner has one entry
\* per distinct account identifier added before it, each with the balance of
\* the latest with_account for it, and its minting account is the account of
\* the owner identity.
C7_FirstBuildPayload ==
    BuildIndexes # {} =>
        LET first == CHOOSE i \in BuildIndexes : \A j \in BuildIndexes : i <= j
            arg == created[1].arg
        IN /\ Len(created) >= 1
           /\ arg.initial_values = LastWrites(0, first)
           /\ Cardinality(DOMAIN arg.initial_values)
                = Cardinality({history[k].account : k \in AddsBetween(0, first)})
           /\ arg.minting_account
                = [owner |-> [self_authenticating |-> IdentityFiles[owner].key],
                   subaccount |-> "none"]

C7_Witness ==
    /\ Len(history) = 3
    /\ history[1].ev = "add" /\ history[2].ev = "add" /\ history[3].ev = "build"
    /\ history[1].account = history[2].account
    /\ history[1].tokens = 1 /\ history[2].tokens = 2
    /\ DOMAIN created[1].arg.initial_values = {history[1].account}
    /\ created[1].arg.initial_values[history[1].account] = 2

\* C8: build empties the builder's mapping; every build that resolves the
\* owner issues one creation call, carrying exactly what was added since the
\* build before it, so a build straight after a build sends an empty mapping
\* and no insertion is sent twice.
C8_BuildMovesMappingOut ==
    /\ Len(created) = Cardinality(BuildIndexes)
    /\ \A i \in BuildIndexes :
        created[BuildNo(i)].arg.initial_values = LastWrites(PrevBuild(i), i)
    /\ accounts = LastWrites(Largest(BuildIndexes \cup {0}), Len(history) + 1)
    /\ lpc = "creating" => accounts = EmptyMap

C8_Witness ==
    /\ Len(created) = 2
    /\ created[1].arg.initial_values # EmptyMap
    /\ created[2].arg.initial_values = EmptyMap
    /\ history[2].ev = "build" /\ history[3].ev = "build"
    /\ accounts = EmptyMap

OwnerUnresolvable == ~configDir \/ IdentityFiles[owner].state # "ok"

\* C9: with an owner identity that cannot be resolved, build fails with the
\* identity or configuration error and no creation call is ever issued.
C9_BuildFailsBeforeCreation ==
    OwnerUnresolvable =>
        /\ created = <<>>
        /\ lpc = "ready"
        /\ lresult.of = "build" =>
            /\ lresult.tag = "Err"
            /\ lresult.variant = (IF configDir THEN "Ident" ELSE "MissingConfig")

C9_Witness ==
    /\ owner = "nobody"
    /\ configDir
    /\ accounts # EmptyMap
    /\ lresult.of = "build"
    /\ lresult.tag = "Err"
    /\ lresult.variant = "Ident"
    /\ created = <<>>

\* the operation that returns in this step failed
Failed(of) == lresult'.of = of /\ lresult'.tag = "Err"

\* C11: a with_account that cannot resolve its identity and a build that cannot
\* resolve the owner leave the accumulated mapping (and the creation calls) as
\* they were; a build whose creation call fails after the owner resolved has
\* emptied the mapping and leaves it empty, the accounts having gone out in
\* that call, so that a build retried right after it sends an empty mapping.
C11_FailureFrame ==
    /\ [][Failed("with_account") =>
            /\ accounts' = accounts
            /\ created' = created
            /\ history' = history]_vars
    /\ [][(lpc = "ready" /\ Failed("build")) =>
            /\ OwnerUnresolvable
            /\ accounts' = accounts
            /\ created' = created
            /\ history' = history]_vars
    /\ [][(lpc = "creating" /\ Failed("build")) =>
            /\ ~OwnerUnresolvable
            /\ accounts = EmptyMap
            /\ accounts' = EmptyMap
            /\ created' = created
            /\ created[Len(created)].arg.initial_values
                 = LastWrites(PrevBuild(Len(history)), Len(history))]_vars
    /\ [][(lpc = "ready" /\ lpc' = "creating"
           /\ lresult.of = "build" /\ lresult.tag = "Err") =>
            /\ Len(created') = Len(created) + 1
            /\ created'[Len(created')].arg.initial_values = EmptyMap]_vars

\* a build lost two accounts to a creation call that failed
C11_Witness ==
    /\ lpc = "ready"
    /\ lresult.of = "build"
    /\ lresult.tag = "Err"
    /\ ~OwnerUnresolvable
    /\ Len(created) = 1
    /\ Cardinality(DOMAIN created[1].arg.initial_values) = 2
    /\ accounts = EmptyMap

====
